---- MODULE Spec2Model ----
(***************************************************************************)
(* Model of mcp-k8s.py: a FastAPI bridge with one route, POST /manage,     *)
(* that turns scale / restart / status / update_resources requests into    *)
(* Kubernetes Deployment API calls behind a static bearer token.           *)
(*                                                                         *)
(* The module-level Kubernetes setup, the pydantic decoding of the body,   *)
(* the handler manage_deployment and its exception handling are modelled   *)
(* from the source.  The control plane is the environment: every call can  *)
(* fail with an ApiException, and other API clients (kubectl, controllers) *)
(* write to the same deployment at any time.                               *)
(*                                                                         *)
(* manage_deployment is an `async def` without any await, and every        *)
(* kubernetes client call in it is a blocking call: a handler keeps the    *)
(* event loop of the single uvicorn process from its first line to its     *)
(* response.  `loop` is the request whose handler is running.              *)
(***************************************************************************)
EXTENDS Integers, Sequences, FiniteSets, TLC

\* ------------------------------------------------------------- bounds
MaxReplicas == 2
MaxClock == 1

\* The requests: the properties are about one request or about a pair, and
\* the handlers of one process never overlap (see `loop`).
Reqs == {1, 2}

\* ------------------------------------------------------------- values
\* Optional[T]: None is the empty sequence, a value v is <<v>>.
None == <<>>
Some(v) == <<v>>

\* A JSON member of the body: absent, or given (null is Given(None)).
Absent == [present |-> FALSE]
Given(opt) == [present |-> TRUE, value |-> opt]

API_TOKEN == "YOUR TOKEN"

\* The Authorization headers a client sends: none, a wrong token, the token
\* without the scheme, the expected header.
Headers ==
  {None, Some("Bearer wrong"), Some(API_TOKEN), Some("Bearer " \o API_TOKEN)}

ActionNames == {"scale", "restart", "status", "update_resources", "delete"}

ReplicaMembers == {Absent, Given(None)} \cup {Given(Some(n)) : n \in 2..MaxReplicas}
MemoryMembers == {Absent, Given(Some("")), Given(Some("256Mi"))}
NamespaceMembers == {Absent, Given(Some("prod"))}

\* JSON bodies of POST /manage.  Members the chosen action never reads are
\* left out, except in the body without the required `deployment`.
Bodies ==
  { b \in [action : {Given(Some(a)) : a \in ActionNames},
           deployment : {Absent, Given(Some("accounting"))},
           namespace : NamespaceMembers,
           replicas : ReplicaMembers,
           memory_limit : MemoryMembers] :
      /\ b.action.value[1] # "scale" => b.replicas = Absent
      /\ b.action.value[1] # "update_resources" => b.memory_limit = Absent
      /\ b.action.value[1] = "delete" => b.namespace = Absent
      /\ b.deployment = Absent =>
           /\ b.action.value[1] = "scale"
           /\ b.namespace = Absent
           /\ b.replicas = Given(Some(MaxReplicas)) }

\* Mutant of Authorized: any header at all is let through.
AuthorizedAnyHeader(authorization) == authorization # None

\* if authorization != f"Bearer {API_TOKEN}": raise HTTPException(401, ...)
Authorized(authorization) == authorization = Some("Bearer " \o API_TOKEN)

\* --------------------------------------------------- ManageRequest (pydantic)
\* A required `str` member: absent or null does not validate.
RequiredStr(m) == m.present /\ m.value # None

\* namespace: str = "default" -- null does not validate.
NamespaceOf(m) == IF m.present THEN m.value[1] ELSE "default"

\* replicas: Optional[int] = 1
ReplicasOf(m) == IF m.present THEN m.value ELSE Some(1)

\* memory_limit: Optional[str] = None
MemoryLimitOf(m) == IF m.present THEN m.value ELSE None

Validates(b) ==
  /\ RequiredStr(b.action)
  /\ RequiredStr(b.deployment)
  /\ (b.namespace.present => b.namespace.value # None)

ManageRequest(b) ==
  [action |-> b.action.value[1],
   deployment |-> b.deployment.value[1],
   namespace |-> NamespaceOf(b.namespace),
   replicas |-> ReplicasOf(b.replicas),
   memory_limit |-> MemoryLimitOf(b.memory_limit)]

\* ------------------------------------------------------------- formatting
\* An f-string is the sequence of its literal parts and formatted values.
\* str() of an Optional[int]: the decimal digits, or "None".
Str(opt) == IF opt = None THEN "None" ELSE ToString(opt[1])

\* A JSON leaf of a patch body.
JsonStr(s) == "\"" \o s \o "\""
JsonInt(opt) == IF opt = None THEN "null" ELSE ToString(opt[1])

\* datetime.utcnow().isoformat() + "Z" for the clock reading t.
Timestamp(t) == "2026-01-01T00:00:0" \o ToString(t) \o "Z"

\* Python truthiness of an Optional[str] / Optional[int].
Truthy(opt) == opt # None /\ opt[1] # ""
OrZero(opt) == IF opt = None THEN Some(0) ELSE opt

\* ------------------------------------------------------------- responses
Success(message) ==
  [code |-> 200, body |-> [status |-> <<"success">>, message |-> message]]

HTTPException(status_code, detail) ==
  [code |-> status_code, body |-> [detail |-> detail]]

\* FastAPI's answer to a body that does not validate.
RequestValidationError ==
  [code |-> 422, body |-> [detail |-> <<"validation error">>]]

\* str(e) of an HTTPException raised inside the try block: Starlette renders
\* it as "<status_code>: <detail>".
StrHTTPException(e) == <<ToString(e.code), ": ">> \o e.body.detail

\* ------------------------------------------------------------- patch bodies
ScalePatch(replicas) == ("spec.replicas" :> JsonInt(replicas))

RestartedAt ==
  "spec.template.metadata.annotations.kubectl.kubernetes.io/restartedAt"

RestartPatch(timestamp) == (RestartedAt :> JsonStr(timestamp))

\* Mutant of ResourcePatch: the patch also sets the memory request.
ResourcePatchWithRequest(container_name, memory_limit) ==
  ("spec.template.spec.containers[0].name" :> JsonStr(container_name))
  @@ ("spec.template.spec.containers[0].resources.limits.memory"
        :> JsonStr(memory_limit))
  @@ ("spec.template.spec.containers[0].resources.requests.memory"
        :> JsonStr(memory_limit))

\* Mutant of ResourcePatch: the container name is fixed, not the one read.
ResourcePatchFixedName(container_name, memory_limit) ==
  ("spec.template.spec.containers[0].name" :> JsonStr("app"))
  @@ ("spec.template.spec.containers[0].resources.limits.memory"
        :> JsonStr(memory_limit))

ResourcePatch(container_name, memory_limit) ==
  ("spec.template.spec.containers[0].name" :> JsonStr(container_name))
  @@ ("spec.template.spec.containers[0].resources.limits.memory"
        :> JsonStr(memory_limit))

NoBody == ("" :> "")

Call(op, request, body) ==
  [op |-> op, name |-> request.deployment, namespace |-> request.namespace,
   body |-> body]

\* ------------------------------------------------------------- exceptions
\* An exception raised inside the try block: its class and str(e).
Raise(exc, text) == [exc |-> exc, text |-> text]

\* Mutant of Except: the failure is reported in the body of a 200 answer.
ExceptAsResult(e) ==
  [code |-> 200, body |-> [status |-> <<"error">>, message |-> e.text]]

\* The two except clauses of manage_deployment, in their order.
Except(e) ==
  IF e.exc = "ApiException"
    THEN HTTPException(500, <<"Kubernetes API Error: ">> \o e.text)
    ELSE HTTPException(500, <<"Unexpected Error: ">> \o e.text)

RaiseHTTPException(status_code, detail) ==
  Raise("HTTPException", StrHTTPException(HTTPException(status_code, detail)))

\* How a call to the control plane can fail whatever the cluster holds: the
\* API refuses it, or the transport fails before an answer.
Failures ==
  {Raise("ApiException", <<"Forbidden">>),
   Raise("MaxRetryError", <<"Max retries exceeded">>)}

\* ------------------------------------------------------------- cluster
\* The one deployment of the cluster: "accounting" in "default".
Exists(call) == call.name = "accounting" /\ call.namespace = "default"

Container(name, memory) == [name |-> name, memory |-> memory]

InitialDeployments ==
  { [replicas |-> 1, containers |-> cs, restartedAt |-> None] :
      cs \in {<<>>, <<Container("app", "128Mi")>>} }

\* Strategic merge of a resource patch: the container of that name gets the limit.
SetMemory(containers, name, memory) ==
  [i \in DOMAIN containers |->
     IF containers[i].name = name
       THEN Container(name, memory) ELSE containers[i]]

HasContainer(containers, name) ==
  \E i \in DOMAIN containers : containers[i].name = name

\* ------------------------------------------------------------- state
VARIABLES
  phase,       \* "import", "main" or "serving": where the module's top level is
  apps_v1,     \* TRUE once the module global apps_v1 is bound
  loop,        \* the request whose handler holds the event loop, 0 if none
  pc,          \* per request: "idle", the cluster call it waits in, "done"
  http,        \* per request: Optional [authorization, json] as received
  calls,       \* per request: the cluster calls it has issued, in order
  resp,        \* per request: Optional response
  returns,     \* per request: how each of its calls ended, in order
  cluster,     \* the deployment accounting/default at the control plane
  interposed,  \* per request: another client wrote between its read and its patch
  lastScale    \* who applied the last change of spec.replicas (0: not a request)

vars ==
  <<phase, apps_v1, loop, pc, http, calls, returns, resp, cluster, interposed,
    lastScale>>

Request(r) == ManageRequest(http[r][1].json)

Init ==
  /\ phase = "import"
  /\ apps_v1 = FALSE
  /\ loop = 0
  /\ pc = [r \in Reqs |-> "idle"]
  /\ http = [r \in Reqs |-> None]
  /\ calls = [r \in Reqs |-> <<>>]
  /\ returns = [r \in Reqs |-> <<>>]
  /\ resp = [r \in Reqs |-> None]
  /\ cluster \in InitialDeployments
  /\ interposed = [r \in Reqs |-> FALSE]
  /\ lastScale = 0

\* ------------------------------------------------------------- startup
\* try: config.load_kube_config(); apps_v1 = client.AppsV1Api()
\* except Exception as e: print(...)            -- and the module goes on
KubernetesSetup ==
  /\ phase = "import"
  /\ \E loaded \in BOOLEAN : apps_v1' = loaded
  /\ phase' = "main"
  /\ UNCHANGED <<loop, pc, http, calls, returns, resp, cluster, interposed, lastScale>>

\* if __name__ == "__main__": uvicorn.run(app, host="0.0.0.0", port=8000)
Main ==
  /\ phase = "main"
  /\ phase' = "serving"
  /\ UNCHANGED <<apps_v1, loop, pc, http, calls, returns, resp, cluster, interposed,
                 lastScale>>

\* ------------------------------------------------------------- handler
\* The handler of r ends with this response and gives the event loop back.
Finish(r, response) ==
  /\ resp' = [resp EXCEPT ![r] = Some(response)]
  /\ pc' = [pc EXCEPT ![r] = "done"]
  /\ loop' = 0

\* The handler of r calls the control plane and blocks in the call.
Issue(r, call) ==
  /\ calls' = [calls EXCEPT ![r] = Append(@, call)]
  /\ pc' = [pc EXCEPT ![r] = call.op]
  /\ loop' = r
  /\ UNCHANGED resp

\* The try block up to its first use of apps_v1, for the clock reading t.
TryBlock(r, request, t) ==
  IF request.action = "update_resources" /\ ~Truthy(request.memory_limit)
    THEN /\ Finish(r, Except(RaiseHTTPException(400,
                 <<"memory_limit is required for this action">>)))
         /\ UNCHANGED calls
  ELSE IF request.action \notin {"update_resources", "scale", "restart", "status"}
    THEN /\ Finish(r, Except(RaiseHTTPException(400,
                 <<"Action '", request.action, "' not supported.">>)))
         /\ UNCHANGED calls
  ELSE IF ~apps_v1
    THEN /\ Finish(r, Except(Raise("NameError", <<"name 'apps_v1' is not defined">>)))
         /\ UNCHANGED calls
  ELSE IF request.action = "update_resources"
    THEN Issue(r, Call("read", request, NoBody))
  ELSE IF request.action = "scale"
    THEN Issue(r, Call("scale", request, ScalePatch(request.replicas)))
  ELSE IF request.action = "restart"
    THEN Issue(r, Call("patch", request, RestartPatch(Timestamp(t))))
  ELSE Issue(r, Call("read", request, NoBody))

\* POST /manage: FastAPI decodes the body, then manage_deployment runs up to
\* its first cluster call.
Manage(r) ==
  /\ phase = "serving"
  /\ loop = 0
  /\ pc[r] = "idle"
  /\ \E h \in Headers, b \in Bodies, t \in 0..MaxClock :
       /\ http' = [http EXCEPT ![r] = Some([authorization |-> h, json |-> b])]
       /\ IF ~Validates(b)
            THEN Finish(r, RequestValidationError) /\ UNCHANGED calls
          ELSE IF ~Authorized(h)
            THEN /\ Finish(r, HTTPException(401, <<"Unauthorized: Invalid MCP Token">>))
                 /\ UNCHANGED calls
          ELSE TryBlock(r, ManageRequest(b), t)
  /\ UNCHANGED <<phase, apps_v1, returns, cluster, interposed, lastScale>>

\* ------------------------------------------------------------- control plane
\* What the control plane reads out of a patch body.
IntLeaf(leaf) == CHOOSE n \in 0..(MaxReplicas + 1) : ToString(n) = leaf
StrLeaf(leaf) ==
  CHOOSE x \in {"app", "sidecar", "", "128Mi", "256Mi", "1Gi"} : JsonStr(x) = leaf

TimeLeaf(leaf) ==
  CHOOSE x \in {Timestamp(t) : t \in 0..MaxClock} : JsonStr(x) = leaf

PatchedName(body) == StrLeaf(body["spec.template.spec.containers[0].name"])
PatchedMemory(body) ==
  StrLeaf(body["spec.template.spec.containers[0].resources.limits.memory"])

IsResourcePatch(body) == "spec.template.spec.containers[0].name" \in DOMAIN body

\* The deployment after the control plane merged a deployment patch into it.
ApplyPatch(deployment, body) ==
  IF IsResourcePatch(body)
    THEN [deployment EXCEPT
            !.containers = SetMemory(@, PatchedName(body), PatchedMemory(body))]
    ELSE [deployment EXCEPT
            !.restartedAt = Some(TimeLeaf(body[RestartedAt]))]

\* The exceptions the call can end in, given what the cluster holds.
CallFailures(call) ==
  Failures \cup
    (IF ~Exists(call) THEN {Raise("ApiException", <<"Not Found">>)} ELSE {})
    \cup
    (IF /\ call.op = "patch"
        /\ IsResourcePatch(call.body)
        /\ ~HasContainer(cluster.containers, PatchedName(call.body))
       THEN {Raise("ApiException", <<"Unprocessable Entity">>)} ELSE {})
    \cup
    (IF call.op = "scale" /\ call.body["spec.replicas"] = "null"
       THEN {Raise("ApiException", <<"Bad Request">>)} ELSE {})

\* Whether the control plane can accept the call.
CanSucceed(call) ==
  /\ Exists(call)
  /\ call.op = "patch" /\ IsResourcePatch(call.body)
       => HasContainer(cluster.containers, PatchedName(call.body))
  /\ call.op = "scale" => call.body["spec.replicas"] # "null"

LastCall(r) == calls[r][Len(calls[r])]

\* How a call ended: raised, or returned -- a read with the deployment's
\* containers and status, a resource patch with the limit it replaced.
Raised == [ok |-> FALSE, containers |-> <<>>, status |-> None, replaced |-> None]
Returned(containers, status, replaced) ==
  [ok |-> TRUE, containers |-> containers, status |-> status, replaced |-> replaced]

Ends(r, return) == returns' = [returns EXCEPT ![r] = Append(@, return)]

MemoryOf(containers, name) ==
  LET i == CHOOSE j \in DOMAIN containers : containers[j].name = name
  IN  containers[i].memory

\* deploy_info.status as the control plane reports it: availableReplicas is
\* left out while no pod is available.
Statuses ==
  { [available_replicas |-> a, replicas |-> Some(cluster.replicas)] :
      a \in {None} \cup {Some(n) : n \in 0..cluster.replicas} }

StatusMessage(s) ==
  <<"Status: ", Str(OrZero(s.available_replicas)), "/", Str(s.replicas),
    " pods ready.">>

ResourcesMessage(request) ==
  <<"Vertical scaling applied: '", request.deployment,
    "' memory limit updated to ", request.memory_limit[1], ".">>

ScaleMessage(request) ==
  <<"Horizontal scaling applied: '", request.deployment, "' set to ",
    Str(request.replicas), " replicas.">>

RestartMessage(request, timestamp) ==
  <<"Rollout restart triggered for '", request.deployment, "' at ",
    timestamp, ".">>

\* apps_v1.read_namespaced_deployment returns or raises; the handler goes on.
ReadReturns(r) ==
  /\ pc[r] = "read"
  /\ \/ /\ \E e \in CallFailures(LastCall(r)) : Finish(r, Except(e))
        /\ Ends(r, Raised)
        /\ UNCHANGED calls
     \/ /\ CanSucceed(LastCall(r))
        /\ IF Request(r).action = "status"
             THEN \E s \in Statuses :
                    /\ Finish(r, Success(StatusMessage(s)))
                    /\ Ends(r, Returned(cluster.containers, Some(s), None))
                    /\ UNCHANGED calls
           ELSE /\ Ends(r, Returned(cluster.containers, None, None))
                /\ IF cluster.containers = <<>>
                     THEN /\ Finish(r, Except(Raise("IndexError",
                                  <<"list index out of range">>)))
                          /\ UNCHANGED calls
                     ELSE Issue(r, Call("patch", Request(r),
                              ResourcePatch(cluster.containers[1].name,
                                            Request(r).memory_limit[1])))
  /\ UNCHANGED <<phase, apps_v1, http, cluster, interposed, lastScale>>

\* apps_v1.patch_namespaced_deployment returns or raises.
PatchReturns(r) ==
  /\ pc[r] = "patch"
  /\ \/ /\ \E e \in CallFailures(LastCall(r)) : Finish(r, Except(e))
        /\ Ends(r, Raised)
        /\ UNCHANGED cluster
     \/ /\ CanSucceed(LastCall(r))
        /\ cluster' = ApplyPatch(cluster, LastCall(r).body)
        /\ IF Request(r).action = "update_resources"
             THEN /\ Finish(r, Success(ResourcesMessage(Request(r))))
                  /\ Ends(r, Returned(<<>>, None,
                         Some(MemoryOf(cluster.containers,
                                       PatchedName(LastCall(r).body)))))
             ELSE /\ Finish(r, Success(RestartMessage(Request(r),
                         TimeLeaf(LastCall(r).body[RestartedAt]))))
                  /\ Ends(r, Returned(<<>>, None, None))
  /\ UNCHANGED <<phase, apps_v1, http, calls, interposed, lastScale>>

\* apps_v1.patch_namespaced_deployment_scale returns or raises.
ScaleReturns(r) ==
  /\ pc[r] = "scale"
  /\ \/ /\ \E e \in CallFailures(LastCall(r)) : Finish(r, Except(e))
        /\ Ends(r, Raised)
        /\ UNCHANGED <<cluster, lastScale>>
     \/ /\ CanSucceed(LastCall(r))
        /\ cluster' = [cluster EXCEPT
                         !.replicas = IntLeaf(LastCall(r).body["spec.replicas"])]
        /\ lastScale' = r
        /\ Finish(r, Success(ScaleMessage(Request(r))))
        /\ Ends(r, Returned(<<>>, None, None))
  /\ UNCHANGED <<phase, apps_v1, http, calls, interposed>>

\* Another client of the control plane (kubectl, a controller) changes the
\* deployment: its replica count, a memory limit, or it puts a sidecar first.
OtherClientWrites ==
  /\ \/ \E n \in 1..MaxReplicas :
          /\ n # cluster.replicas
          /\ cluster' = [cluster EXCEPT !.replicas = n]
          /\ lastScale' = 0
     \/ \E i \in DOMAIN cluster.containers :
          /\ cluster.containers[i].memory # "1Gi"
          /\ cluster' = [cluster EXCEPT !.containers[i].memory = "1Gi"]
          /\ UNCHANGED lastScale
     \/ /\ Len(cluster.containers) = 1
        /\ cluster' = [cluster EXCEPT
                         !.containers = <<Container("sidecar", "128Mi")>> \o @]
        /\ UNCHANGED lastScale
  /\ interposed' =
       [r \in Reqs |->
          interposed[r] \/ (pc[r] = "patch" /\ IsResourcePatch(LastCall(r).body)
                            /\ Exists(LastCall(r)))]
  /\ UNCHANGED <<phase, apps_v1, loop, pc, http, calls, returns, resp>>

Next ==
  \/ KubernetesSetup
  \/ Main
  \/ \E r \in Reqs : Manage(r)
  \/ \E r \in Reqs : ReadReturns(r)
  \/ \E r \in Reqs : PatchReturns(r)
  \/ \E r \in Reqs : ScaleReturns(r)
  \/ OtherClientWrites

Spec == Init /\ [][Next]_vars

\* ------------------------------------------------------------- properties
Sent(r) == http[r] # None
Answered(r) == pc[r] = "done"
Header(r) == http[r][1].authorization
Json(r) == http[r][1].json
Code(r) == resp[r][1].code
Body(r) == resp[r][1].body
Succeeded(r) == Code(r) = 200 /\ "status" \in DOMAIN Body(r) /\ Body(r).status = <<"success">>
Contains(text, part) == \E i \in DOMAIN text : text[i] = part

ExpectedHeader == Some("Bearer YOUR TOKEN")
Decodes(r) == Json(r).action.present /\ Json(r).deployment.present
Admitted(r) == Sent(r) /\ Header(r) = ExpectedHeader /\ Decodes(r)
ActionOf(r) == Json(r).action.value[1]
TargetName(r) == Json(r).deployment.value[1]
TargetNamespace(r) ==
  IF Json(r).namespace.present THEN Json(r).namespace.value[1] ELSE "default"
\* The replica count of a scale request: 1 when the member is absent.
CountOf(r) == IF Json(r).replicas.present THEN Json(r).replicas.value ELSE <<1>>
CountText(r) == IF CountOf(r) = <<>> THEN "None" ELSE ToString(CountOf(r)[1])
CountJson(r) == IF CountOf(r) = <<>> THEN "null" ELSE ToString(CountOf(r)[1])
LimitGiven(r) ==
  /\ Json(r).memory_limit.present
  /\ Json(r).memory_limit.value # <<>>
  /\ Json(r).memory_limit.value # <<"">>
LimitOf(r) == Json(r).memory_limit.value[1]
Quoted(x) == "\"" \o x \o "\""
NameKey == "spec.template.spec.containers[0].name"
LimitKey == "spec.template.spec.containers[0].resources.limits.memory"
ReadCall(r) ==
  [op |-> "read", name |-> TargetName(r), namespace |-> TargetNamespace(r),
   body |-> ("" :> "")]

\* C1 as stated: every request without the expected Authorization header,
\* whatever its body, is answered 401 and issues no cluster call.
C1_Original ==
  \A r \in Reqs :
    Answered(r) /\ Header(r) # ExpectedHeader =>
      Code(r) = 401 /\ calls[r] = <<>>

\* C1 amended: a request without the expected Authorization header issues no
\* cluster call and is answered 401 when its body decodes into a
\* ManageRequest, 422 when it does not.
C1_Unauthorized ==
  \A r \in Reqs :
    Sent(r) /\ Header(r) # ExpectedHeader =>
      /\ calls[r] = <<>>
      /\ Answered(r)
      /\ Code(r) = (IF Decodes(r) THEN 401 ELSE 422)

C1_Witness ==
  \E r \in Reqs :
    /\ Answered(r) /\ apps_v1
    /\ Header(r) = Some("Bearer wrong")
    /\ Decodes(r) /\ ActionOf(r) = "scale"
    /\ Code(r) = 401 /\ calls[r] = <<>>

\* C2 as stated: an authenticated update_resources request without a
\* memory_limit (omitted or empty) is answered 400 and issues no cluster call.
C2_Original ==
  \A r \in Reqs :
    Answered(r) /\ Admitted(r) /\ ActionOf(r) = "update_resources"
      /\ ~LimitGiven(r) =>
        Code(r) = 400 /\ calls[r] = <<>>

\* C3 as stated: an authenticated request with an unrecognised action is
\* answered 400, the detail names the action, and no cluster call is issued.
C3_Original ==
  \A r \in Reqs :
    Answered(r) /\ Admitted(r)
      /\ ActionOf(r) \notin {"scale", "restart", "status", "update_resources"} =>
        /\ Code(r) = 400
        /\ Contains(Body(r).detail, ActionOf(r))
        /\ calls[r] = <<>>

\* C4: success is answered only when every cluster call of the request
\* returned; a call that raised is the request's last call and the answer is
\* a 500 with a detail string.
C4_NoPartialSuccess ==
  \A r \in Reqs :
    /\ Len(returns[r]) <= Len(calls[r])
    /\ \A i \in DOMAIN returns[r] :
         ~returns[r][i].ok =>
           /\ i = Len(calls[r])
           /\ Answered(r)
           /\ Code(r) = 500
           /\ DOMAIN Body(r) = {"detail"}
           /\ Body(r).detail # <<>>
    /\ Answered(r) /\ "status" \in DOMAIN Body(r) =>
         /\ Len(returns[r]) = Len(calls[r])
         /\ \A i \in DOMAIN returns[r] : returns[r][i].ok

C4_Witness ==
  \E r \in Reqs :
    /\ Answered(r) /\ Len(calls[r]) = 2
    /\ returns[r][1].ok /\ ~returns[r][2].ok
    /\ Code(r) = 500

\* C5 as stated: an authenticated scale request issues exactly one call, a
\* scale-patch on its target with spec.replicas = N (1 when absent), and a
\* success message contains N.
C5_Original ==
  \A r \in Reqs :
    Answered(r) /\ Admitted(r) /\ ActionOf(r) = "scale" =>
      /\ calls[r] =
           <<[op |-> "scale", name |-> TargetName(r),
              namespace |-> TargetNamespace(r),
              body |-> ("spec.replicas" :> CountJson(r))]>>
      /\ Succeeded(r) => Contains(Body(r).message, CountText(r))

\* C6: once the read of an authenticated update_resources request with a
\* limit M returned a deployment with a container, the request's calls are
\* that read and then one patch whose body has exactly two leaves: the name
\* of the first container read, and limits.memory = M.
C6_PatchPayload ==
  \A r \in Reqs :
    Admitted(r) /\ ActionOf(r) = "update_resources" /\ LimitGiven(r)
      /\ returns[r] # <<>> /\ returns[r][1].ok
      /\ returns[r][1].containers # <<>> =>
        /\ Len(calls[r]) = 2
        /\ calls[r][1] = ReadCall(r)
        /\ calls[r][2].op = "patch"
        /\ calls[r][2].name = TargetName(r)
        /\ calls[r][2].namespace = TargetNamespace(r)
        /\ DOMAIN calls[r][2].body = {NameKey, LimitKey}
        /\ calls[r][2].body[NameKey] = Quoted(returns[r][1].containers[1].name)
        /\ calls[r][2].body[LimitKey] = Quoted(LimitOf(r))

C6_Witness ==
  \E r \in Reqs :
    /\ Answered(r) /\ Succeeded(r) /\ ActionOf(r) = "update_resources"
    /\ Len(calls[r]) = 2
    /\ returns[r][1].containers[1].name = "sidecar"
    /\ calls[r][2].body[NameKey] = Quoted("sidecar")

\* C7 as stated: an authenticated status request issues exactly one call, a
\* read of its target, and when the read reports A and T the message is
\* exactly "Status: A/T pods ready.", A being 0 when absent.
C7_Original ==
  \A r \in Reqs :
    Answered(r) /\ Admitted(r) /\ ActionOf(r) = "status" =>
      /\ calls[r] = <<ReadCall(r)>>
      /\ returns[r] # <<>> /\ returns[r][1].ok =>
           LET s == returns[r][1].status[1]
               a == IF s.available_replicas = <<>>
                      THEN "0" ELSE ToString(s.available_replicas[1])
           IN  /\ Succeeded(r)
               /\ Body(r).message =
                    <<"Status: ", a, "/", ToString(s.replicas[1]), " pods ready.">>

\* C8 as stated: when the cluster client could not be initialised the process
\* does not serve, and no request is ever answered.
C8_Original ==
  phase # "import" /\ ~apps_v1 =>
    /\ phase # "serving"
    /\ \A r \in Reqs : resp[r] = None

\* C9 as stated: each of two authenticated scale requests for the same
\* deployment issues its scale-patch exactly once, reports success when its
\* patch was applied, and the replica count is the one of the patch applied
\* last.
C9_Original ==
  \A r1, r2 \in Reqs :
    (/\ r1 # r2
     /\ Answered(r1) /\ Admitted(r1) /\ ActionOf(r1) = "scale"
     /\ Answered(r2) /\ Admitted(r2) /\ ActionOf(r2) = "scale"
     /\ TargetNamespace(r1) = TargetNamespace(r2)) =>
      \A r \in {r1, r2} :
        /\ Len(calls[r]) = 1
        /\ calls[r][1].op = "scale"
        /\ calls[r][1].body["spec.replicas"] = CountJson(r)
        /\ returns[r] # <<>> /\ returns[r][1].ok => Succeeded(r)
        /\ lastScale = r => <<cluster.replicas>> = CountOf(r)

====
